---- MODULE Spec2Model ----
(***************************************************************************)
(* SimpleGraph<N, E> of src/src/simple_graph.rs: a directed graph stored   *)
(* as nodes: Vec<Option<N>> and edges: Vec<Vec<Option<E>>>, addressed by   *)
(* NodeID(usize) and EdgeID((usize, usize)).                               *)
(*                                                                         *)
(* Vectors are TLA+ sequences; Rust index i is position i + 1.  Option<T>  *)
(* is a set with at most one element.  A panic is a result with            *)
(* panic = TRUE; the container is left as the code left it at the point    *)
(* of the panic.                                                           *)
(***************************************************************************)
EXTENDS Integers, Sequences, FiniteSets, TLC

VARIABLES
    nodes,       \* self.nodes: Vec<Option<N>>
    edges,       \* self.edges: Vec<Vec<Option<E>>>
    fatal,       \* the call that panicked, if any: the process ends there
    issued,      \* the NodeIDs add_node returned, in call order
    removed,     \* the NodeIDs remove_node returned a payload for
    storedNode,  \* per NodeID, the payload the callers last stored and have not removed
    storedEdge,  \* per pair, the payload the callers last stored and have not removed
    calls        \* number of calls that returned through &mut self

vars == <<nodes, edges, fatal, issued, removed, storedNode, storedEdge, calls>>

(* ------------------------------ bounds -------------------------------- *)

\* NodeID values the callers hold: indices 0 .. MaxNodes - 1; add_node is
\* called at most MaxNodes times.
MaxNodes == 2

\* Number of calls through &mut self that return (add_node, add_edge,
\* remove_node, remove_edge, node_mut, edge_mut).
MaxCalls == 5

NodeIDs == 0 .. (MaxNodes - 1)

\* Payloads of the generic types N and E.
NodeData == {1, 2}
EdgeData == {10, 20}

(* ------------------------- Option and Vec ----------------------------- *)

None == {}
Some(v) == {v}
is_none(o) == o = None
is_some(o) == o /= None
unwrap(o) == CHOOSE v \in o : TRUE

max(a, b) == IF a >= b THEN a ELSE b

\* v[i] for a Vec v, with Rust's 0-based index.
at(v, i) == v[i + 1]

\* i is a valid index of the Vec v (v[i] does not panic).
in_bounds(v, i) == i >= 0 /\ i < Len(v)

\* v with v[i] = x.
set_at(v, i, x) == [v EXCEPT ![i + 1] = x]

\* Vec::resize(n, x): truncate to n, or extend to n with copies of x.
resize(v, n, x) ==
    IF n <= Len(v) THEN SubSeq(v, 1, n)
    ELSE v \o [k \in 1 .. (n - Len(v)) |-> x]

\* The outcome of a call: the container after it, whether it panicked, and
\* the value returned (<<>> when it panicked or returns nothing).
Ok(ns, es, ret) == [nodes |-> ns, edges |-> es, panic |-> FALSE, ret |-> ret]
Panicked(ns, es) == [nodes |-> ns, edges |-> es, panic |-> TRUE, ret |-> <<>>]

(* ----------------------------- operations ----------------------------- *)

\* Variant of add_node that fills the first empty slot before it appends.
add_node_reuse(ns, es, data) ==
    IF \E i \in 0 .. (Len(ns) - 1) : is_none(at(ns, i))
    THEN LET i == CHOOSE i \in 0 .. (Len(ns) - 1) : is_none(at(ns, i))
         IN  Ok(set_at(ns, i, Some(data)), es, i)
    ELSE Ok(Append(ns, Some(data)), es, Len(ns))

\* Variant of add_node that inserts the new slot in front.
add_node_prepend(ns, es, data) ==
    LET ns2 == <<Some(data)>> \o ns
    IN  Ok(ns2, es, Len(ns2) - 1)

\* fn add_node(&mut self, data: N) -> NodeID
add_node(ns, es, data) ==
    LET ns2 == Append(ns, Some(data))
    IN  Ok(ns2, es, Len(ns2) - 1)

\* Variant of add_edge that keeps the payload of an occupied slot.
add_edge_keep_first(ns, es, a, b, data) ==
    LET max_id == max(a, b)
        es1 == IF Len(es) <= max_id THEN resize(es, max_id + 1, <<>>) ELSE es
        row == at(es1, a)
        row1 == IF Len(row) <= b THEN resize(row, b + 1, None) ELSE row
        row2 == IF is_some(at(row1, b)) THEN row1 ELSE set_at(row1, b, Some(data))
    IN  Ok(ns, set_at(es1, a, row2), <<a, b>>)

\* Variant of add_edge that writes only into a slot it has just created and
\* leaves a slot that already exists as it is.
add_edge_fresh_only(ns, es, a, b, data) ==
    LET max_id == max(a, b)
        es1 == IF Len(es) <= max_id THEN resize(es, max_id + 1, <<>>) ELSE es
        rowa == at(es1, a)
    IN  IF Len(rowa) <= b
        THEN Ok(ns, set_at(es1, a, set_at(resize(rowa, b + 1, None), b, Some(data))), <<a, b>>)
        ELSE Ok(ns, es1, <<a, b>>)

\* Variant of add_edge that also fills the reverse slot (b, a).
add_edge_symmetric(ns, es, a, b, data) ==
    LET max_id == max(a, b)
        es1 == IF Len(es) <= max_id THEN resize(es, max_id + 1, <<>>) ELSE es
        rowa == at(es1, a)
        rowa1 == IF Len(rowa) <= b THEN resize(rowa, b + 1, None) ELSE rowa
        es2 == set_at(es1, a, set_at(rowa1, b, Some(data)))
        rowb == at(es2, b)
        rowb1 == IF Len(rowb) <= a THEN resize(rowb, a + 1, None) ELSE rowb
    IN  Ok(ns, set_at(es2, b, set_at(rowb1, a, Some(data))), <<a, b>>)

\* fn add_edge(&mut self, a: NodeID, b: NodeID, data: E) -> EdgeID
add_edge(ns, es, a, b, data) ==
    LET max_id == max(a, b)
        es1 == IF Len(es) <= max_id THEN resize(es, max_id + 1, <<>>) ELSE es
        row == at(es1, a)
        row1 == IF Len(row) <= b THEN resize(row, b + 1, None) ELSE row
        row2 == set_at(row1, b, Some(data))
    IN  Ok(ns, set_at(es1, a, row2), <<a, b>>)

\* Variant of remove_node without the check of the incoming column.
remove_node_row_only(ns, es, id) ==
    IF ~in_bounds(es, id) THEN Panicked(ns, es)
    ELSE IF \E j \in 0 .. (Len(at(es, id)) - 1) : ~is_none(at(at(es, id), j))
    THEN Panicked(ns, es)
    ELSE IF ~in_bounds(ns, id) THEN Panicked(ns, es)
    ELSE LET old == at(ns, id)
             ns2 == set_at(ns, id, None)
         IN  IF is_none(old) THEN Panicked(ns2, es) ELSE Ok(ns2, es, unwrap(old))

\* Variant of remove_node that returns the payload and keeps the slot.
remove_node_keep_slot(ns, es, id) ==
    IF ~in_bounds(es, id) THEN Panicked(ns, es)
    ELSE IF \E j \in 0 .. (Len(at(es, id)) - 1) : ~is_none(at(at(es, id), j))
    THEN Panicked(ns, es)
    ELSE IF \E i \in 0 .. (Len(es) - 1) :
                ~in_bounds(at(es, i), id) \/ ~is_none(at(at(es, i), id))
    THEN Panicked(ns, es)
    ELSE IF ~in_bounds(ns, id) THEN Panicked(ns, es)
    ELSE LET old == at(ns, id)
         IN  IF is_none(old) THEN Panicked(ns, es) ELSE Ok(ns, es, unwrap(old))

\* Variant of remove_node that empties the node slot first and checks the
\* incident edge slots afterwards.
remove_node_slot_first(ns, es, id) ==
    IF ~in_bounds(ns, id) THEN Panicked(ns, es)
    ELSE LET old == at(ns, id)
             ns2 == set_at(ns, id, None)
         IN  IF is_none(old) THEN Panicked(ns2, es)
             ELSE IF ~in_bounds(es, id) THEN Panicked(ns2, es)
             ELSE IF \E j \in 0 .. (Len(at(es, id)) - 1) : ~is_none(at(at(es, id), j))
             THEN Panicked(ns2, es)
             ELSE IF \E i \in 0 .. (Len(es) - 1) :
                         ~in_bounds(at(es, i), id) \/ ~is_none(at(at(es, i), id))
             THEN Panicked(ns2, es)
             ELSE Ok(ns2, es, unwrap(old))

\* fn remove_node(&mut self, NodeID(id)) -> N
remove_node(ns, es, id) ==
    \* line 83: &self.edges[id], then assert!(to_node.is_none()) per slot
    IF ~in_bounds(es, id) THEN Panicked(ns, es)
    ELSE IF \E j \in 0 .. (Len(at(es, id)) - 1) : ~is_none(at(at(es, id), j))
    THEN Panicked(ns, es)
    \* lines 86-88: assert!(from_node[id].is_none()) for every row
    ELSE IF \E i \in 0 .. (Len(es) - 1) :
                ~in_bounds(at(es, i), id) \/ ~is_none(at(at(es, i), id))
    THEN Panicked(ns, es)
    \* line 91: replace(&mut self.nodes[id], None).unwrap()
    ELSE IF ~in_bounds(ns, id) THEN Panicked(ns, es)
    ELSE LET old == at(ns, id)
             ns2 == set_at(ns, id, None)
         IN  IF is_none(old) THEN Panicked(ns2, es) ELSE Ok(ns2, es, unwrap(old))

\* Variant of remove_edge that returns the payload and keeps the slot.
remove_edge_keep_slot(ns, es, id_a, id_b) ==
    IF ~in_bounds(es, id_a) THEN Panicked(ns, es)
    ELSE IF ~in_bounds(at(es, id_a), id_b) THEN Panicked(ns, es)
    ELSE LET old == at(at(es, id_a), id_b)
         IN  IF is_none(old) THEN Panicked(ns, es) ELSE Ok(ns, es, unwrap(old))

\* fn remove_edge(&mut self, EdgeID((id_a, id_b))) -> E
remove_edge(ns, es, id_a, id_b) ==
    IF ~in_bounds(es, id_a) THEN Panicked(ns, es)
    ELSE IF ~in_bounds(at(es, id_a), id_b) THEN Panicked(ns, es)
    ELSE LET old == at(at(es, id_a), id_b)
             es2 == set_at(es, id_a, set_at(at(es, id_a), id_b, None))
         IN  IF is_none(old) THEN Panicked(ns, es2) ELSE Ok(ns, es2, unwrap(old))

\* Variant of node that returns from an empty slot.
node_unchecked(ns, es, id) ==
    IF ~in_bounds(ns, id) THEN Panicked(ns, es)
    ELSE IF is_none(at(ns, id)) THEN Ok(ns, es, 0)
    ELSE Ok(ns, es, unwrap(at(ns, id)))

\* fn node(&self, NodeID(id)) -> &N
node(ns, es, id) ==
    IF ~in_bounds(ns, id) THEN Panicked(ns, es)
    ELSE IF is_none(at(ns, id)) THEN Panicked(ns, es)
    ELSE Ok(ns, es, unwrap(at(ns, id)))

\* fn node_mut(&mut self, NodeID(id)) -> &mut N, and the caller's write of
\* data through the reference it returns.  ret is the payload found.
node_mut(ns, es, id, data) ==
    IF ~in_bounds(ns, id) THEN Panicked(ns, es)
    ELSE IF is_none(at(ns, id)) THEN Panicked(ns, es)
    ELSE Ok(set_at(ns, id, Some(data)), es, unwrap(at(ns, id)))

\* fn edge(&self, EdgeID((id_a, id_b))) -> &E
edge(ns, es, id_a, id_b) ==
    IF ~in_bounds(es, id_a) THEN Panicked(ns, es)
    ELSE IF ~in_bounds(at(es, id_a), id_b) THEN Panicked(ns, es)
    ELSE IF is_none(at(at(es, id_a), id_b)) THEN Panicked(ns, es)
    ELSE Ok(ns, es, unwrap(at(at(es, id_a), id_b)))

\* fn edge_mut(&mut self, EdgeID((id_a, id_b))) -> &mut E, and the caller's
\* write of data through the reference it returns.  ret is the payload found.
edge_mut(ns, es, id_a, id_b, data) ==
    IF ~in_bounds(es, id_a) THEN Panicked(ns, es)
    ELSE IF ~in_bounds(at(es, id_a), id_b) THEN Panicked(ns, es)
    ELSE IF is_none(at(at(es, id_a), id_b)) THEN Panicked(ns, es)
    ELSE Ok(ns, set_at(es, id_a, set_at(at(es, id_a), id_b, Some(data))),
            unwrap(at(at(es, id_a), id_b)))

\* fn edge_to(&self, EdgeID((_, id_b))) -> NodeID
edge_to(ns, es, id_a, id_b) == Ok(ns, es, id_b)

\* Variant of edge_from that projects the second component of the handle.
edge_from_second(ns, es, id_a, id_b) == Ok(ns, es, id_b)

\* fn edge_from(&self, EdgeID((id_a, _))) -> NodeID
edge_from(ns, es, id_a, id_b) == Ok(ns, es, id_a)

\* The filter_map of edges_from over the first n slots of a row:
\* enumerate() in ascending index, Some(_) => EdgeID((id, i)), None => skip.
RECURSIVE filter_map(_, _, _)
filter_map(row, id, n) ==
    IF n = 0 THEN <<>>
    ELSE LET rest == filter_map(row, id, n - 1)
         IN  IF is_some(at(row, n - 1)) THEN Append(rest, <<id, n - 1>>) ELSE rest

\* Variant of filter_map that collects in descending index.
RECURSIVE filter_map_rev(_, _, _)
filter_map_rev(row, id, n) ==
    IF n = 0 THEN <<>>
    ELSE LET rest == filter_map_rev(row, id, n - 1)
         IN  IF is_some(at(row, n - 1)) THEN <<<<id, n - 1>>>> \o rest ELSE rest

\* Variant of edges_from that lists the row in descending index.
edges_from_reversed(ns, es, id) ==
    IF ~in_bounds(es, id) THEN Panicked(ns, es)
    ELSE Ok(ns, es, filter_map_rev(at(es, id), id, Len(at(es, id))))

\* fn edges_from(&self, NodeID(id)) -> Vec<EdgeID>
edges_from(ns, es, id) ==
    IF ~in_bounds(es, id) THEN Panicked(ns, es)
    ELSE Ok(ns, es, filter_map(at(es, id), id, Len(at(es, id))))

(* ------------------------------- state -------------------------------- *)

NoCall == [op |-> "none", args |-> <<>>]

\* A panic ends the process: no call follows it.
Running == fatal = NoCall

\* A call through &mut self that returns is counted against MaxCalls.
Budget(r) == r.panic \/ calls < MaxCalls

\* What a call leaves behind: the container as the code left it; a panic is
\* recorded with the call's arguments; a &mut self call that returns is
\* counted.
Outcome(op, args, r, mutating) ==
    /\ nodes' = r.nodes
    /\ edges' = r.edges
    /\ fatal' = IF r.panic THEN [op |-> op, args |-> args] ELSE fatal
    /\ calls' = IF mutating /\ ~r.panic THEN calls + 1 ELSE calls

\* SimpleGraph::new(); nothing issued, nothing stored.
Init ==
    /\ nodes = <<>>
    /\ edges = <<>>
    /\ fatal = NoCall
    /\ issued = <<>>
    /\ removed = {}
    /\ storedNode = [id \in NodeIDs |-> None]
    /\ storedEdge = [p \in NodeIDs \X NodeIDs |-> None]
    /\ calls = 0

AddNode ==
    /\ Running
    /\ Len(issued) < MaxNodes
    /\ \E data \in NodeData :
        LET r == add_node(nodes, edges, data) IN
        /\ Budget(r)
        /\ Outcome("add_node", <<data>>, r, TRUE)
        /\ issued' = Append(issued, r.ret)
        /\ storedNode' = [storedNode EXCEPT ![r.ret] = Some(data)]
        /\ UNCHANGED <<removed, storedEdge>>

AddEdge ==
    /\ Running
    /\ \E a \in NodeIDs, b \in NodeIDs, data \in EdgeData :
        LET r == add_edge(nodes, edges, a, b, data) IN
        /\ Budget(r)
        /\ Outcome("add_edge", <<a, b, data>>, r, TRUE)
        /\ storedEdge' = [storedEdge EXCEPT ![<<a, b>>] = Some(data)]
        /\ UNCHANGED <<issued, removed, storedNode>>

RemoveNode ==
    /\ Running
    /\ \E id \in NodeIDs :
        LET r == remove_node(nodes, edges, id) IN
        /\ Budget(r)
        /\ Outcome("remove_node", <<id>>, r, TRUE)
        /\ removed' = IF r.panic THEN removed ELSE removed \cup {id}
        /\ storedNode' = IF r.panic THEN storedNode
                         ELSE [storedNode EXCEPT ![id] = None]
        /\ UNCHANGED <<issued, storedEdge>>

RemoveEdge ==
    /\ Running
    /\ \E a \in NodeIDs, b \in NodeIDs :
        LET r == remove_edge(nodes, edges, a, b) IN
        /\ Budget(r)
        /\ Outcome("remove_edge", <<a, b>>, r, TRUE)
        /\ storedEdge' = IF r.panic THEN storedEdge
                         ELSE [storedEdge EXCEPT ![<<a, b>>] = None]
        /\ UNCHANGED <<issued, removed, storedNode>>

Node ==
    /\ Running
    /\ \E id \in NodeIDs :
        LET r == node(nodes, edges, id) IN
        /\ Outcome("node", <<id>>, r, FALSE)
        /\ UNCHANGED <<issued, removed, storedNode, storedEdge>>

NodeMut ==
    /\ Running
    /\ \E id \in NodeIDs, data \in NodeData :
        LET r == node_mut(nodes, edges, id, data) IN
        /\ Budget(r)
        /\ Outcome("node_mut", <<id, data>>, r, TRUE)
        /\ storedNode' = IF r.panic THEN storedNode
                         ELSE [storedNode EXCEPT ![id] = Some(data)]
        /\ UNCHANGED <<issued, removed, storedEdge>>

Edge ==
    /\ Running
    /\ \E a \in NodeIDs, b \in NodeIDs :
        LET r == edge(nodes, edges, a, b) IN
        /\ Outcome("edge", <<a, b>>, r, FALSE)
        /\ UNCHANGED <<issued, removed, storedNode, storedEdge>>

EdgeMut ==
    /\ Running
    /\ \E a \in NodeIDs, b \in NodeIDs, data \in EdgeData :
        LET r == edge_mut(nodes, edges, a, b, data) IN
        /\ Budget(r)
        /\ Outcome("edge_mut", <<a, b, data>>, r, TRUE)
        /\ storedEdge' = IF r.panic THEN storedEdge
                         ELSE [storedEdge EXCEPT ![<<a, b>>] = Some(data)]
        /\ UNCHANGED <<issued, removed, storedNode>>

EdgeTo ==
    /\ Running
    /\ \E a \in NodeIDs, b \in NodeIDs :
        LET r == edge_to(nodes, edges, a, b) IN
        /\ Outcome("edge_to", <<a, b>>, r, FALSE)
        /\ UNCHANGED <<issued, removed, storedNode, storedEdge>>

EdgeFrom ==
    /\ Running
    /\ \E a \in NodeIDs, b \in NodeIDs :
        LET r == edge_from(nodes, edges, a, b) IN
        /\ Outcome("edge_from", <<a, b>>, r, FALSE)
        /\ UNCHANGED <<issued, removed, storedNode, storedEdge>>

EdgesFrom ==
    /\ Running
    /\ \E id \in NodeIDs :
        LET r == edges_from(nodes, edges, id) IN
        /\ Outcome("edges_from", <<id>>, r, FALSE)
        /\ UNCHANGED <<issued, removed, storedNode, storedEdge>>

Next ==
    \/ AddNode
    \/ AddEdge
    \/ RemoveNode
    \/ RemoveEdge
    \/ Node
    \/ NodeMut
    \/ Edge
    \/ EdgeMut
    \/ EdgeTo
    \/ EdgeFrom
    \/ EdgesFrom

Spec == Init /\ [][Next]_vars

(* ------------------------ vocabulary of the claims -------------------- *)

\* Edge slot (a, b) exists in the matrix es and holds a payload.
OccupiedIn(es, a, b) ==
    /\ in_bounds(es, a)
    /\ in_bounds(at(es, a), b)
    /\ is_some(at(at(es, a), b))

Occupied(a, b) == OccupiedIn(edges, a, b)

\* Number of times handle h occurs in the sequence s.
Count(s, h) == Cardinality({k \in 1 .. Len(s) : s[k] = h})

\* The handles of the sequence s.
Handles(s) == {s[k] : k \in 1 .. Len(s)}

\* Node slot h exists and holds a payload.
NodeOccupied(h) == in_bounds(nodes, h) /\ is_some(at(nodes, h))

\* Some edge slot (h, x) or (x, h) is occupied.
Incident(h) == \E x \in NodeIDs : Occupied(h, x) \/ Occupied(x, h)

\* h was returned by add_node.
Issued(h) == \E k \in 1 .. Len(issued) : issued[k] = h

(* -------------------------------- C1 ---------------------------------- *)

\* C1: remove_node(h) on an occupied node slot h with no occupied edge slot
\* (h, x) or (x, h) does not panic, empties the node slot and returns the
\* stored payload: no remove_node call ends the process on such a node, and
\* every node remove_node returned a payload for has an empty slot.
C1_RemoveIsolatedNode ==
    /\ fatal.op = "remove_node" =>
            ~(NodeOccupied(fatal.args[1]) /\ ~Incident(fatal.args[1]))
    /\ \A h \in removed : in_bounds(nodes, h) /\ is_none(at(nodes, h))

(* -------------------------------- C2 ---------------------------------- *)

\* C2: edges_from(n) on a node n issued by add_node that has no outgoing
\* edge returns the empty sequence and never panics, also when n is beyond
\* the row count of the matrix: no edges_from call ends the process on such
\* a node, and where the call returns it returns <<>>.
C2_EdgesFromNoEdges ==
    /\ fatal.op = "edges_from" =>
            ~(Issued(fatal.args[1]) /\ \A x \in NodeIDs : ~Occupied(fatal.args[1], x))
    /\ Running =>
        \A n \in NodeIDs :
            (Issued(n) /\ \A x \in NodeIDs : ~Occupied(n, x)) =>
                LET r == edges_from(nodes, edges, n) IN
                ~r.panic => r.ret = <<>>

(* -------------------------------- C3 ---------------------------------- *)

\* C3: remove_node(h) panics whenever some edge slot (h, x) or (x, h) is
\* occupied, a self-loop (h, h) included, and returns no payload: the node
\* slot keeps what it held.
C3_RemoveNodeWithEdgesPanics ==
    Running =>
        \A h \in NodeIDs :
            Incident(h) =>
                LET r == remove_node(nodes, edges, h) IN
                r.panic /\ r.nodes = nodes /\ r.edges = edges

\* A remove_node call ended the process on an existing node whose own row
\* holds no edge but whose column does.
C3_Witness ==
    /\ fatal.op = "remove_node"
    /\ NodeOccupied(fatal.args[1])
    /\ \A x \in NodeIDs : ~Occupied(fatal.args[1], x)
    /\ \E x \in NodeIDs : NodeOccupied(x) /\ Occupied(x, fatal.args[1])

(* -------------------------------- C4 ---------------------------------- *)

\* C4: edges_from(a) on a node with an existing row returns one handle
\* (a, j) for each occupied slot j of row a, none for an empty slot, in
\* strictly ascending j.
C4_EdgesFromAscending ==
    Running =>
        \A a \in NodeIDs :
            in_bounds(edges, a) =>
                LET r == edges_from(nodes, edges, a) IN
                /\ ~r.panic
                /\ \A k \in 1 .. Len(r.ret) :
                        r.ret[k][1] = a /\ Occupied(a, r.ret[k][2])
                /\ \A j \in NodeIDs :
                        Occupied(a, j) => \E k \in 1 .. Len(r.ret) : r.ret[k] = <<a, j>>
                /\ \A k \in 1 .. Len(r.ret), l \in 1 .. Len(r.ret) :
                        k < l => r.ret[k][2] < r.ret[l][2]

\* Row 0 holds edges to 0 and to 1, and edges_from lists them in that order.
C4_Witness ==
    /\ Running
    /\ storedEdge[<<0, 0>>] /= None
    /\ storedEdge[<<0, 1>>] /= None
    /\ edges_from(nodes, edges, 0).ret = << <<0, 0>>, <<0, 1>> >>

(* -------------------------------- C5 ---------------------------------- *)

\* C5: add_edge(a, b, e1) followed by add_edge(a, b, e2) leaves one edge at
\* (a, b) holding e2; both calls return the handle (a, b); edge(handle)
\* returns e2; edges_from(a) contains (a, b) once.  Every stored edge is
\* read back with the payload stored last, every add_edge returns (a, b),
\* and an add_edge onto an occupied slot changes its payload only.
C5_AddEdgeOverwrites ==
    Running =>
        /\ \A p \in NodeIDs \X NodeIDs :
                storedEdge[p] /= None =>
                    edge(nodes, edges, p[1], p[2]) = Ok(nodes, edges, unwrap(storedEdge[p]))
        /\ \A a \in NodeIDs, b \in NodeIDs, e2 \in EdgeData :
                LET r == add_edge(nodes, edges, a, b, e2) IN
                /\ ~r.panic
                /\ r.ret = <<a, b>>
                /\ Occupied(a, b) =>
                    /\ edge(r.nodes, r.edges, a, b).ret = e2
                    /\ Count(edges_from(r.nodes, r.edges, a).ret, <<a, b>>) = 1
                    /\ \A x \in NodeIDs, y \in NodeIDs :
                            OccupiedIn(r.edges, x, y) <=> Occupied(x, y)

\* Slot (0, 1) holds 10, and add_edge(0, 1, 20) there leaves the one handle
\* (0, 1), read back as 20.
C5_Witness ==
    /\ Running
    /\ Occupied(0, 1)
    /\ storedEdge[<<0, 1>>] = Some(10)
    /\ LET r == add_edge(nodes, edges, 0, 1, 20) IN
        /\ edge(r.nodes, r.edges, 0, 1).ret = 20
        /\ edges_from(r.nodes, r.edges, 0).ret = << <<0, 1>> >>

(* -------------------------------- C6 ---------------------------------- *)

\* C6: after h = add_node(v), node(h) returns v in every later state
\* reached without remove_node(h) and without a write through node_mut(h):
\* node(h) returns the payload last stored for h, whatever other nodes and
\* edges were added or removed since.
C6_NodeHandlesStable ==
    Running =>
        \A h \in NodeIDs :
            storedNode[h] /= None =>
                node(nodes, edges, h) = Ok(nodes, edges, unwrap(storedNode[h]))

\* Node 0 still reads 2 after a second node with another payload was added
\* and an edge was added and removed.
C6_Witness ==
    /\ Running
    /\ Len(issued) = 2
    /\ storedNode[0] = Some(2)
    /\ storedNode[1] = Some(1)
    /\ in_bounds(edges, 0)
    /\ in_bounds(at(edges, 0), 1)
    /\ ~Occupied(0, 1)
    /\ node(nodes, edges, 0).ret = 2

(* -------------------------------- C7 ---------------------------------- *)

\* C7: a remove_node(h) that returns, returns the payload last stored for
\* h, and node(h), node_mut(h) and remove_node(h) panic in every later
\* state.
C7_RemovedNodeStaysRemoved ==
    Running =>
        /\ \A h \in NodeIDs :
                LET r == remove_node(nodes, edges, h) IN
                ~r.panic => storedNode[h] /= None /\ r.ret = unwrap(storedNode[h])
        /\ \A h \in removed :
                /\ node(nodes, edges, h).panic
                /\ remove_node(nodes, edges, h).panic
                /\ \A data \in NodeData : node_mut(nodes, edges, h, data).panic

\* A node(h) call ended the process on a node remove_node had returned.
C7_Witness ==
    /\ fatal.op = "node"
    /\ fatal.args[1] \in removed

(* -------------------------------- C8 ---------------------------------- *)

\* C8: remove_edge(h) on an occupied slot h = (a, b) returns the payload
\* last stored there and empties the slot; edges_from(a) afterwards is
\* edges_from(a) before without h.  In every state edges_from(a) lists the
\* pairs stored and not removed.
C8_RemoveEdge ==
    Running =>
        /\ \A a \in NodeIDs, b \in NodeIDs :
                Occupied(a, b) =>
                    LET r == remove_edge(nodes, edges, a, b)
                        before == edges_from(nodes, edges, a).ret
                        Keep(h) == h /= <<a, b>>
                    IN  /\ ~r.panic
                        /\ r.ret = unwrap(storedEdge[<<a, b>>])
                        /\ ~OccupiedIn(r.edges, a, b)
                        /\ edges_from(r.nodes, r.edges, a).ret = SelectSeq(before, Keep)
        /\ \A a \in NodeIDs :
                in_bounds(edges, a) =>
                    Handles(edges_from(nodes, edges, a).ret)
                        = {<<a, j>> : j \in {j \in NodeIDs : storedEdge[<<a, j>>] /= None}}

\* Slot (0, 1) was filled and emptied again; edges_from(0) still lists (0, 0).
C8_Witness ==
    /\ Running
    /\ in_bounds(edges, 0)
    /\ Len(at(edges, 0)) = 2
    /\ is_none(at(at(edges, 0), 1))
    /\ edges_from(nodes, edges, 0).ret = << <<0, 0>> >>

(* -------------------------------- C9 ---------------------------------- *)

\* C9: add_node never panics and returns the number of add_node calls made
\* before it, so the handles issued are pairwise different and no index is
\* reused; the node sequence is as long as the number of add_node calls (it
\* never shrinks).
C9_AddNodeAppends ==
    /\ \A k \in 1 .. Len(issued) : issued[k] = k - 1
    /\ Len(nodes) = Len(issued)
    /\ Running =>
        \A data \in NodeData :
            LET r == add_node(nodes, edges, data) IN
            /\ ~r.panic
            /\ r.ret = Len(issued)
            /\ Len(r.nodes) = Len(nodes) + 1

\* Node 0, the only node issued, was removed; add_node there returns 1 and
\* leaves slot 0 empty.
C9_Witness ==
    /\ Running
    /\ issued = <<0>>
    /\ removed = {0}
    /\ LET r == add_node(nodes, edges, 2) IN
        /\ r.ret = 1
        /\ is_none(at(r.nodes, 0))
        /\ at(r.nodes, 1) = Some(2)

(* -------------------------------- C10 --------------------------------- *)

\* C10: edge(h), edge_mut(h) and remove_edge(h) panic when edge slot h is
\* empty or out of range of the matrix, and node(h), node_mut(h) panic when
\* node slot h is empty or out of range.
C10_EmptySlotsPanic ==
    Running =>
        /\ \A a \in NodeIDs, b \in NodeIDs :
                (~Occupied(a, b) \/ storedEdge[<<a, b>>] = None) =>
                    /\ edge(nodes, edges, a, b).panic
                    /\ remove_edge(nodes, edges, a, b).panic
                    /\ \A data \in EdgeData : edge_mut(nodes, edges, a, b, data).panic
        /\ \A h \in NodeIDs :
                (~NodeOccupied(h) \/ storedNode[h] = None) =>
                    /\ node(nodes, edges, h).panic
                    /\ \A data \in NodeData : node_mut(nodes, edges, h, data).panic

\* A remove_edge call ended the process on slot (0, 1), which was filled
\* and emptied before.
C10_Witness ==
    /\ fatal = [op |-> "remove_edge", args |-> <<0, 1>>]
    /\ in_bounds(edges, 0)
    /\ Len(at(edges, 0)) = 2
    /\ is_none(at(at(edges, 0), 1))

(* -------------------------------- C11 --------------------------------- *)

\* Every row of the matrix es, and es itself, is longer than both indices
\* of the pair p.
CoveredIn(es, p) ==
    /\ Len(es) > max(p[1], p[2])
    /\ \A i \in 0 .. (Len(es) - 1) : Len(at(es, i)) > max(p[1], p[2])

\* C11: the row count and each row's length are greater than every node
\* index passed to add_edge so far, and neither the row count nor the
\* length of a row ever decreases: every step keeps or grows the lengths,
\* and the endpoints of every edge stored after the step are covered (an
\* add_edge stores its pair in the step that makes the call).
C11_MatrixCoversEndpoints ==
    [][ /\ Len(edges') >= Len(edges)
        /\ \A i \in 0 .. (Len(edges) - 1) : Len(at(edges', i)) >= Len(at(edges, i))
        /\ \A p \in NodeIDs \X NodeIDs :
                storedEdge'[p] /= None => CoveredIn(edges', p)
      ]_vars

(* -------------------------------- C12 --------------------------------- *)

\* The matrix the claim describes after add_edge(a, b, e) on es: rows up to
\* max(a, b), the new ones empty; row a up to column b, the new slots
\* empty; slot (a, b) holding e; every other slot as it was.
GrownBy(es, a, b, e) ==
    [i \in 1 .. max(Len(es), max(a, b) + 1) |->
        LET old == IF i <= Len(es) THEN es[i] ELSE <<>> IN
        IF i - 1 /= a THEN old
        ELSE [j \in 1 .. max(Len(old), b + 1) |->
                IF j - 1 = b THEN Some(e)
                ELSE IF j <= Len(old) THEN old[j] ELSE None]]

\* C12: add_edge(a, b, e) changes only edge slot (a, b): the row count
\* becomes max(old row count, max(a, b) + 1), row a gets length
\* max(old length, b + 1), new rows and new slots are empty, every other
\* slot keeps its occupancy and value ((b, a) is not filled when a /= b),
\* and the node sequence is unchanged.
C12_AddEdgeFrame ==
    Running =>
        \A a \in NodeIDs, b \in NodeIDs, e \in EdgeData :
            LET r == add_edge(nodes, edges, a, b, e) IN
            /\ ~r.panic
            /\ r.nodes = nodes
            /\ r.edges = GrownBy(edges, a, b, e)
            /\ a /= b => (OccupiedIn(r.edges, b, a) <=> Occupied(b, a))

\* With the one edge (0, 0), add_edge(0, 1, 20) grows the matrix to two
\* rows, row 0 to two slots, keeps (0, 0) and leaves (1, 0) out of the matrix.
C12_Witness ==
    /\ Running
    /\ edges = << <<Some(10)>> >>
    /\ LET r == add_edge(nodes, edges, 0, 1, 20) IN
        /\ r.edges = << <<Some(10), Some(20)>>, <<>> >>
        /\ ~OccupiedIn(r.edges, 1, 0)

(* -------------------------------- C13 --------------------------------- *)

\* add_edge as a caller that keeps the trust placed in it uses it: both
\* handles reference occupied node slots at the time of the call.
AddEdgeOccupied ==
    /\ Running
    /\ \E a \in NodeIDs, b \in NodeIDs, data \in EdgeData :
        LET r == add_edge(nodes, edges, a, b, data) IN
        /\ NodeOccupied(a)
        /\ NodeOccupied(b)
        /\ Budget(r)
        /\ Outcome("add_edge", <<a, b, data>>, r, TRUE)
        /\ storedEdge' = [storedEdge EXCEPT ![<<a, b>>] = Some(data)]
        /\ UNCHANGED <<issued, removed, storedNode>>

NextOccupied ==
    \/ AddNode
    \/ AddEdgeOccupied
    \/ RemoveNode
    \/ RemoveEdge
    \/ Node
    \/ NodeMut
    \/ Edge
    \/ EdgeMut
    \/ EdgeTo
    \/ EdgeFrom
    \/ EdgesFrom

SpecOccupied == Init /\ [][NextOccupied]_vars

\* C13: when add_edge is only ever called with handles of occupied node
\* slots, both endpoints of every occupied edge slot are occupied node
\* slots in every reachable state.  add_edge itself checks nothing: with
\* the handle of a removed node as source it succeeds and fills the slot.
C13_NoDanglingEdges ==
    /\ \A a \in NodeIDs, b \in NodeIDs :
            Occupied(a, b) => NodeOccupied(a) /\ NodeOccupied(b)
    /\ Running =>
        \A h \in removed, b \in NodeIDs, e \in EdgeData :
            LET r == add_edge(nodes, edges, h, b, e) IN
            /\ ~r.panic
            /\ OccupiedIn(r.edges, h, b)
            /\ at(at(r.edges, h), b) = Some(e)

\* Edge (0, 1) joins two occupied nodes, and removing either of them is
\* refused.
C13_Witness ==
    /\ Running
    /\ Occupied(0, 1)
    /\ NodeOccupied(0)
    /\ NodeOccupied(1)
    /\ remove_node(nodes, edges, 0).panic
    /\ remove_node(nodes, edges, 1).panic

(* -------------------------------- C14 --------------------------------- *)

\* The calls that can end in a fatal condition.
Fallible ==
    {"remove_node", "remove_edge", "node", "node_mut", "edge", "edge_mut",
     "edges_from"}

\* C14: a call of remove_node, remove_edge, node, node_mut, edge, edge_mut
\* or edges_from that ends in a fatal condition leaves the node sequence
\* and the edge matrix exactly as they were before the call; remove_node
\* in particular has not emptied the node slot when one of its
\* incident-edge checks fails.
C14_FatalLeavesContainer ==
    [][ (fatal = NoCall /\ fatal' /= NoCall) =>
            /\ fatal'.op \in Fallible
            /\ nodes' = nodes
            /\ edges' = edges
      ]_vars

\* remove_node of a node with a self-loop was refused: the node slot still
\* holds the payload it was given and the edge is still there.
C14_Witness ==
    /\ fatal.op = "remove_node"
    /\ Occupied(fatal.args[1], fatal.args[1])
    /\ NodeOccupied(fatal.args[1])
    /\ at(nodes, fatal.args[1]) = storedNode[fatal.args[1]]

(* -------------------------------- C15 --------------------------------- *)

\* Slot (a, b) exists in the matrix and is empty: the state of a slot whose
\* edge was removed.
Vacated(a, b) ==
    /\ in_bounds(edges, a)
    /\ in_bounds(at(edges, a), b)
    /\ is_none(at(at(edges, a), b))

\* C15: edge handles are positional and become valid again on
\* re-insertion: once the edge behind h = (a, b) has been removed,
\* add_edge(a, b, e2) returns the same handle h, and then edge(h) returns
\* e2 and remove_edge(h) returns e2, neither being fatal.
C15_HandleValidAgain ==
    Running =>
        \A a \in NodeIDs, b \in NodeIDs :
            Vacated(a, b) =>
                \A e2 \in EdgeData :
                    LET r == add_edge(nodes, edges, a, b, e2)
                        p == edge(r.nodes, r.edges, a, b)
                        q == remove_edge(r.nodes, r.edges, a, b)
                    IN  /\ ~r.panic
                        /\ r.ret = <<a, b>>
                        /\ ~p.panic
                        /\ p.ret = e2
                        /\ ~q.panic
                        /\ q.ret = e2

\* The matrix has the single slot (0, 0), created by add_edge(0, 0, _) and
\* emptied by remove_edge; edge on the old handle is fatal there, and after
\* add_edge(0, 0, 20) both edge and remove_edge return 20.
C15_Witness ==
    /\ Running
    /\ edges = << <<None>> >>
    /\ storedEdge[<<0, 0>>] = None
    /\ edge(nodes, edges, 0, 0).panic
    /\ LET r == add_edge(nodes, edges, 0, 0, 20) IN
        /\ edge(r.nodes, r.edges, 0, 0).ret = 20
        /\ remove_edge(r.nodes, r.edges, 0, 0).ret = 20

(* -------------------------------- C16 --------------------------------- *)

\* C16: edge_from and edge_to are pure projections: they never end in a
\* fatal condition and leave the container as it is; the handle that
\* add_edge(a, b, e) returns is the pair (a, b), and in every state,
\* whether slot (a, b) is occupied, emptied or not in the matrix,
\* edge_from of it is a and edge_to of it is b; every handle h' returned by
\* edges_from(n) has edge_from(h') = n and addresses an occupied slot.
C16_PureProjections ==
    /\ fatal.op \notin {"edge_from", "edge_to"}
    /\ Running =>
        \A a \in NodeIDs, b \in NodeIDs :
            /\ \A e \in EdgeData : add_edge(nodes, edges, a, b, e).ret = <<a, b>>
            /\ edge_from(nodes, edges, a, b) = Ok(nodes, edges, a)
            /\ edge_to(nodes, edges, a, b) = Ok(nodes, edges, b)
    /\ Running =>
        \A n \in NodeIDs :
            LET r == edges_from(nodes, edges, n) IN
            ~r.panic =>
                \A k \in 1 .. Len(r.ret) :
                    /\ edge_from(nodes, edges, r.ret[k][1], r.ret[k][2]).ret = n
                    /\ Occupied(r.ret[k][1], r.ret[k][2])

\* Edge (0, 1) was added and removed again, edge (0, 0) is stored:
\* edge_from and edge_to still project the removed edge's handle to 0 and
\* 1, and edges_from(0) returns the one handle (0, 0).
C16_Witness ==
    /\ Running
    /\ Vacated(0, 1)
    /\ Occupied(0, 0)
    /\ edge_from(nodes, edges, 0, 1).ret = 0
    /\ edge_to(nodes, edges, 0, 1).ret = 1
    /\ edges_from(nodes, edges, 0).ret = << <<0, 0>> >>

====
